---- MODULE Spec2Model ----
(***************************************************************************)
(* Model of the Streamlit time-series labeling tool (src/app.py).          *)
(*                                                                         *)
(* The program is a Streamlit script: every user interaction (uploading a  *)
(* file, moving the slider, choosing a label, pressing "Assign Label",     *)
(* pressing the download button) re-executes main() from the top.  The     *)
(* only state that survives from one execution to the next is the uploaded *)
(* file held by the uploader widget, st.session_state, and the widgets'    *)
(* own values.  Each action below is one complete execution of main().     *)
(*                                                                         *)
(* Time is counted in hours; a timestamp cell of the CSV is a datetime     *)
(* text, an empty cell, or a text that is no date.                         *)
(***************************************************************************)
EXTENDS Integers, Sequences, FiniteSets, TLC

\* ---------------------------------------------------------------- bounds
\* rows of an uploaded table
MaxRows == 3
\* rows of an uploaded table in the session model
MaxSessionRows == 2
\* timestamps are the hours 0..MaxTime
MaxTime == 3
\* files uploaded in one session
MaxLoads == 2

\* ------------------------------------------------------ program constants
\* pd.Timedelta(hours=2)
Duration == 2
\* the options of the label selectbox
LabelOptions == {"Normal", "Warning", "Error"}
\* the option a selectbox shows when it is first rendered
DefaultLabel == "Normal"

VARIABLES
    uploaded,        \* the file held by st.file_uploader: <<>> or <<table>>
    session_state,   \* st.session_state: a function on a subset of {"x_start", "x_end"}
    selected_label,  \* the value of the label selectbox
    page,            \* what the last execution of main() rendered
    request,         \* the user interaction that triggered the last execution
    exported,        \* the file delivered by the last request, <<>> if none
    loads            \* the number of files uploaded so far

vars == <<uploaded, session_state, selected_label, page, request, exported, loads>>

\* ------------------------------------------------------------ cell values
\* A timestamp after pd.to_datetime: an instant, or NaT.
Ts(n) == [kind |-> "ts", t |-> n]
NaT == [kind |-> "NaT", t |-> 0]
\* A value after pd.to_numeric: a number, or NaN.
Num(n) == [kind |-> "num", v |-> n]
NaN == [kind |-> "NaN", v |-> 0]
\* The null of an object column (a Label never assigned).
NoLabel == "NaN"

\* Raw CSV cells, as pd.read_csv hands them over.
RawTimestamps ==
    [kind : {"datetime"}, t : 0..MaxTime] \cup {[kind |-> "empty", t |-> 0], [kind |-> "text", t |-> 0]}
RawValues == {[kind |-> "number", v |-> 1], [kind |-> "text", v |-> 0]}

\* The rows a raw table with the given columns can have.
RawRows(cols) ==
    IF cols = {"timestamp", "hoehe"} THEN [timestamp : RawTimestamps, hoehe : RawValues]
    ELSE IF cols = {"timestamp"} THEN [timestamp : RawTimestamps]
    ELSE IF cols = {"hoehe"} THEN [hoehe : RawValues]
    ELSE {<<>>}

SeqsUpTo(S, n) == UNION {[1..k -> S] : k \in 0..n}

\* The CSV files a user can upload.
RawTables ==
    UNION {[readable : {TRUE}, columns : {cols}, rows : SeqsUpTo(RawRows(cols), MaxRows)] :
             cols \in SUBSET {"timestamp", "hoehe"}}
    \cup {[readable |-> FALSE, columns |-> {}, rows |-> <<>>]}

\* ---------------------------------------------------------------- helpers
Min2(a, b) == IF a <= b THEN a ELSE b
Max2(a, b) == IF a >= b THEN a ELSE b
SetMin(S) == CHOOSE x \in S : \A y \in S : x <= y
SetMax(S) == CHOOSE x \in S : \A y \in S : x >= y

Range(s) == {s[i] : i \in DOMAIN s}

\* datetime + timedelta; NaT absorbs
Plus(ts, d) == IF ts.kind = "ts" THEN Ts(ts.t + d) ELSE NaT

\* Series.min() / Series.max() of a timestamp column: NaT entries are skipped, and the
\* result is NaT when nothing is left.
ValidTimes(rows) == {rows[i].timestamp.t : i \in {j \in DOMAIN rows : rows[j].timestamp.kind = "ts"}}
TimestampMin(rows) == IF ValidTimes(rows) = {} THEN NaT ELSE Ts(SetMin(ValidTimes(rows)))
TimestampMax(rows) == IF ValidTimes(rows) = {} THEN NaT ELSE Ts(SetMax(ValidTimes(rows)))

\* The mask (data["timestamp"] >= x_start) & (data["timestamp"] <= x_end); a comparison
\* with NaT is False.
InRange(row, x_start, x_end) ==
    /\ row.timestamp.kind = "ts"
    /\ x_start.kind = "ts"
    /\ x_end.kind = "ts"
    /\ row.timestamp.t >= x_start.t
    /\ row.timestamp.t <= x_end.t

RECURSIVE FilterReversed(_, _)
\* Filter with the kept rows collected back to front
FilterReversed(rows, mask) ==
    IF rows = <<>> THEN <<>>
    ELSE IF Head(rows).idx \in mask THEN FilterReversed(Tail(rows), mask) \o <<Head(rows)>>
    ELSE FilterReversed(Tail(rows), mask)

RECURSIVE Filter(_, _)
\* boolean indexing data[mask]: the rows of the mask, in their order, with their index
Filter(rows, mask) ==
    IF rows = <<>> THEN <<>>
    ELSE IF Head(rows).idx \in mask THEN <<Head(rows)>> \o Filter(Tail(rows), mask)
    ELSE Filter(Tail(rows), mask)

\* ------------------------------------------------------------ upload_file
\* pd.read_csv: a DataFrame with a RangeIndex (idx = row position), or an exception.
read_csv(file) ==
    [columns |-> IF file.columns = {"timestamp", "hoehe"} THEN <<"timestamp", "hoehe">>
                 ELSE IF file.columns = {"timestamp"} THEN <<"timestamp">>
                 ELSE IF file.columns = {"hoehe"} THEN <<"hoehe">>
                 ELSE <<>>,
     rows |-> [i \in DOMAIN file.rows |-> file.rows[i] @@ ("idx" :> i - 1)]]

\* upload_file(): <<>> is None (no file, or read_csv raised), <<df>> the DataFrame
upload_file(file_uploader) ==
    IF file_uploader = <<>> THEN <<>>
    ELSE IF ~file_uploader[1].readable THEN <<>>
    ELSE <<read_csv(file_uploader[1])>>

\* ----------------------------------------------------------- prepare_data
\* pd.to_datetime of one cell (errors="raise" is decided on the whole column below)
to_datetime(cell) == IF cell.kind = "datetime" THEN Ts(cell.t) ELSE NaT
\* pd.to_numeric(errors="coerce") of one cell
to_numeric(cell) == IF cell.kind = "number" THEN Num(cell.v) ELSE NaN

\* dropna whose result is thrown away: the rows stay as they are
DropnaUnassigned(rows) == rows

\* data.dropna(subset=["hoehe"])
dropna(rows) == Filter(rows, {rows[i].idx : i \in {j \in DOMAIN rows : rows[j].hoehe # NaN}})

ErrNoTimestamp == "The 'timestamp' column is missing."
ErrNoHoehe == "The 'hoehe' column is missing."
ErrToDatetime == "Error converting 'timestamp' to datetime"

\* prepare_data(data): ret is <<>> for None and <<df>> otherwise; error is the st.error
\* text ("" if none); warning tells whether st.warning was shown.
prepare_data(data) ==
    IF "timestamp" \notin Range(data.columns)
    THEN [ret |-> <<>>, error |-> ErrNoTimestamp, warning |-> FALSE]
    ELSE IF "hoehe" \notin Range(data.columns)
    THEN [ret |-> <<>>, error |-> ErrNoHoehe, warning |-> FALSE]
    ELSE IF \E i \in DOMAIN data.rows : data.rows[i].timestamp.kind = "text"
    THEN [ret |-> <<>>, error |-> ErrToDatetime, warning |-> FALSE]
    ELSE LET converted == [i \in DOMAIN data.rows |->
                              [idx |-> data.rows[i].idx,
                               timestamp |-> to_datetime(data.rows[i].timestamp),
                               hoehe |-> to_numeric(data.rows[i].hoehe)]]
             anynull == \E i \in DOMAIN converted : converted[i].hoehe = NaN
         IN [ret |-> <<[columns |-> data.columns,
                        rows |-> IF anynull THEN dropna(converted) ELSE converted]>>,
             error |-> "",
             warning |-> anynull]

\* -------------------------------------------------------------- st.slider
\* st.slider(min_value, max_value, value): the widget widens its bounds so that
\* min <= value <= max ("adjusting the bounds as necessary"), and returns the position
\* the user dragged it to, or value when the user did not touch it.  NaT is no datetime
\* the widget supports: it raises.
slider(min_value, max_value, value, dragged) ==
    IF min_value.kind # "ts" \/ max_value.kind # "ts" \/ value.kind # "ts"
    THEN [raised |-> TRUE, lo |-> 0, hi |-> 0, value |-> NaT]
    ELSE LET lo0 == Min2(min_value.t, max_value.t)
             hi0 == Max2(lo0, max_value.t)
             lo == Min2(value.t, lo0)
             hi == Max2(value.t, hi0)
         IN [raised |-> FALSE, lo |-> lo, hi |-> hi,
             value |-> IF dragged # <<>> /\ dragged[1] >= lo /\ dragged[1] <= hi
                       THEN Ts(dragged[1]) ELSE value]

\* ------------------------------------------------- create_interactive_plot
\* filtered_data of create_interactive_plot: the rows the chart shows
create_interactive_plot(data, x_start, x_end) ==
    Filter(data.rows, {data.rows[i].idx : i \in {j \in DOMAIN data.rows : InRange(data.rows[j], x_start, x_end)}})

\* --------------------------------------------------------------- to_csv
FormatTimestamp(ts) == IF ts.kind = "ts" THEN ToString(ts.t) ELSE ""
FormatNumber(x) == IF x.kind = "num" THEN ToString(x.v) ELSE ""
FormatLabel(l) == IF l = NoLabel THEN "" ELSE l

\* data.to_csv(index=False): the header, then one line per row; a null is an empty field
to_csv(data) ==
    [header |-> data.columns,
     lines |-> [i \in DOMAIN data.rows |->
                  [c \in DOMAIN data.columns |->
                     IF data.columns[c] = "timestamp" THEN FormatTimestamp(data.rows[i].timestamp)
                     ELSE IF data.columns[c] = "hoehe" THEN FormatNumber(data.rows[i].hoehe)
                     ELSE FormatLabel(data.rows[i].Label)]]]

\* ------------------------------------------------------------------ main
\* data.loc[selected_data.index, "Label"] = selected_label: a new column "Label",
\* selected_label in the selected rows and null in the others (the column is created
\* also when the selection is empty)
AssignLabel(data, index, label) ==
    [columns |-> data.columns \o <<"Label">>,
     rows |-> [i \in DOMAIN data.rows |->
                 data.rows[i] @@ ("Label" :> IF data.rows[i].idx \in index THEN label ELSE NoLabel)]]

\* A page on which main() returned (or raised) before the chart was drawn; prepared is
\* what prepare_data returned in that execution (<<>> for None or not called).
StoppedPage(status, error, warning, prepared) ==
    [status |-> status, error |-> error, warning |-> warning, prepared |-> prepared,
     slider |-> <<>>, chart |-> <<>>, success |-> FALSE, data |-> <<>>, download |-> <<>>]

\* The index of a DataFrame selection.
Index(rows) == {rows[i].idx : i \in DOMAIN rows}

\* main(), from the table on: labeled is data after the "Assign Label" branch.
ShowLabeled(data, labeled, warning, ss, sl, chart, clicked) ==
    [session_state |-> ss,
     page |-> [status |-> "ok", error |-> "", warning |-> warning, prepared |-> <<data>>,
               slider |-> <<sl.lo, sl.hi>>, chart |-> <<chart>>, success |-> clicked,
               data |-> <<labeled>>, download |-> <<to_csv(labeled)>>]]

\* main(), from the plot on: x_start and x_end are read back from the session state,
\* the chart is drawn, and "Assign Label" labels the rows between x_start and x_end.
PlotAndLabel(data, warning, ss, sl, label, clicked) ==
    ShowLabeled(data,
                IF clicked
                THEN AssignLabel(data, Index(create_interactive_plot(data, ss["x_start"], ss["x_end"])), label)
                ELSE data,
                warning, ss, sl,
                create_interactive_plot(data, ss["x_start"], ss["x_end"]),
                clicked)

\* main(), from the slider's return on: the session state takes the slider's value.
AfterSlider(data, warning, ss, sl, label, clicked) ==
    IF sl.raised
    THEN [session_state |-> ss, page |-> StoppedPage("exception", "", warning, <<data>>)]
    ELSE PlotAndLabel(data, warning,
                      [ss EXCEPT !["x_start"] = sl.value, !["x_end"] = Plus(sl.value, Duration)],
                      sl, label, clicked)

\* main(), the slider: ss is the session state after its initialisation.
SliderStep(data, warning, ss, dragged, label, clicked) ==
    AfterSlider(data, warning, ss,
                slider(TimestampMin(data.rows), Plus(TimestampMax(data.rows), -Duration),
                       ss["x_start"], dragged),
                label, clicked)

\* main(), the initialisation of x_start and x_end where they are not in the session state
InitSessionState(data, ss) ==
    (IF "x_start" \in DOMAIN ss THEN <<>> ELSE ("x_start" :> TimestampMin(data.rows)))
    @@ (IF "x_end" \in DOMAIN ss THEN <<>> ELSE ("x_end" :> Plus(TimestampMin(data.rows), Duration)))
    @@ ss

\* AfterPrepare with the window forgotten when the table is rejected
AfterPrepareResetting(prepared, ss, dragged, label, clicked) ==
    IF prepared.ret = <<>>
    THEN [session_state |-> <<>>, page |-> StoppedPage("prepare_error", prepared.error, FALSE, <<>>)]
    ELSE SliderStep(prepared.ret[1], prepared.warning, InitSessionState(prepared.ret[1], ss),
                    dragged, label, clicked)

\* main(), from prepare_data's return on
AfterPrepare(prepared, ss, dragged, label, clicked) ==
    IF prepared.ret = <<>>
    THEN [session_state |-> ss, page |-> StoppedPage("prepare_error", prepared.error, FALSE, <<>>)]
    ELSE SliderStep(prepared.ret[1], prepared.warning, InitSessionState(prepared.ret[1], ss),
                    dragged, label, clicked)

\* main(), from upload_file's return on
AfterUpload(file_uploader, uploaded_data, ss, dragged, label, clicked) ==
    IF uploaded_data = <<>>
    THEN [session_state |-> ss,
          page |-> StoppedPage(IF file_uploader = <<>> THEN "no_file" ELSE "read_error", "", FALSE, <<>>)]
    ELSE AfterPrepare(prepare_data(uploaded_data[1]), ss, dragged, label, clicked)

\* One execution of main(): file_uploader is the uploader's file, ss st.session_state
\* before, dragged the slider position the user chose (<<>> if untouched), label the
\* selectbox value, clicked whether "Assign Label" was pressed.
main(file_uploader, ss, dragged, label, clicked) ==
    AfterUpload(file_uploader, upload_file(file_uploader), ss, dragged, label, clicked)

\* The selectbox keeps its value while it is rendered; a page without it forgets it.
SelectboxAfter(p, label) == IF p.status = "ok" THEN label ELSE DefaultLabel

NoRequest == [op |-> "none", lo |-> 0, hi |-> 0]

\* The session states a session can be in: nothing initialised yet, a window of
\* Duration hours, or the NaT pair left by a table without any timestamp.
SessionStates ==
    {<<>>}
    \cup {("x_start" :> Ts(a)) @@ ("x_end" :> Ts(a + Duration)) : a \in (-Duration)..MaxTime}
    \cup {("x_start" :> NaT) @@ ("x_end" :> NaT)}

\* The files of the session model: the raw tables of at most MaxSessionRows rows.
SessionTables == {file \in RawTables : Len(file.rows) <= MaxSessionRows}

Init ==
    /\ uploaded = <<>>
    /\ session_state = <<>>
    /\ selected_label = DefaultLabel
    /\ page = StoppedPage("no_file", "", FALSE, <<>>)
    /\ request = NoRequest
    /\ exported = <<>>
    /\ loads = 0

\* Execute main() and keep what it leaves behind.
Rerun(file_uploader, dragged, label, clicked) ==
    LET r == main(file_uploader, session_state, dragged, label, clicked) IN
    /\ uploaded' = file_uploader
    /\ session_state' = r.session_state
    /\ page' = r.page
    /\ selected_label' = SelectboxAfter(r.page, label)

\* load: the user puts a CSV file into the uploader.
UploadFrom(files) ==
    \E file \in files :
        /\ Rerun(<<file>>, <<>>, selected_label, FALSE)
        /\ request' = [NoRequest EXCEPT !.op = "load"]
        /\ exported' = <<>>
        /\ loads' = loads + 1

Upload ==
    /\ loads < MaxLoads
    /\ UploadFrom(SessionTables)

\* the user removes the file from the uploader
RemoveFile ==
    /\ uploaded # <<>>
    /\ Rerun(<<>>, <<>>, selected_label, FALSE)
    /\ request' = [NoRequest EXCEPT !.op = "remove"]
    /\ exported' = <<>>
    /\ UNCHANGED loads

\* advance: the user drags the slider to x
MoveSlider ==
    /\ page.slider # <<>>
    /\ \E x \in page.slider[1]..page.slider[2] :
        /\ x # session_state["x_start"].t
        /\ Rerun(uploaded, <<x>>, selected_label, FALSE)
    /\ request' = [NoRequest EXCEPT !.op = "advance"]
    /\ exported' = <<>>
    /\ UNCHANGED loads

\* the user picks another label in the selectbox
SelectLabel ==
    /\ page.status = "ok"
    /\ \E label \in LabelOptions \ {selected_label} :
        Rerun(uploaded, <<>>, label, FALSE)
    /\ request' = [NoRequest EXCEPT !.op = "select"]
    /\ exported' = <<>>
    /\ UNCHANGED loads

\* label_selection: the user draws the selection [lo, hi] in the chart (inside the
\* visible range) and presses "Assign Label"
AssignClick ==
    /\ page.status = "ok"
    /\ \E lo \in session_state["x_start"].t..session_state["x_end"].t :
         \E hi \in lo..session_state["x_end"].t :
            request' = [NoRequest EXCEPT !.op = "label_selection", !.lo = lo, !.hi = hi]
    /\ Rerun(uploaded, <<>>, selected_label, TRUE)
    /\ exported' = <<>>
    /\ UNCHANGED loads

\* export: the user presses the download button, receives the file the page offers,
\* and the script runs again
Download ==
    /\ page.status = "ok"
    /\ exported' = page.download
    /\ Rerun(uploaded, <<>>, selected_label, FALSE)
    /\ request' = [NoRequest EXCEPT !.op = "export"]
    /\ UNCHANGED loads

Next ==
    \/ Upload
    \/ RemoveFile
    \/ MoveSlider
    \/ SelectLabel
    \/ AssignClick
    \/ Download

Spec == Init /\ [][Next]_vars

\* ------------------------------------------------------------ load alone
\* The load request by itself: a session in any state it can be in, with an empty
\* uploader, receives one file out of all the raw tables.
InitLoad ==
    /\ uploaded = <<>>
    /\ session_state \in SessionStates
    /\ selected_label = DefaultLabel
    /\ page = StoppedPage("no_file", "", FALSE, <<>>)
    /\ request = IF session_state = <<>> THEN NoRequest ELSE [NoRequest EXCEPT !.op = "remove"]
    /\ exported = <<>>
    /\ loads = IF session_state = <<>> THEN 0 ELSE 1

Load ==
    /\ uploaded = <<>>
    /\ loads < MaxLoads
    /\ UploadFrom(RawTables)

SpecLoad == InitLoad /\ [][Load]_vars

\* ---------------------------------------------------------------- claims
\* What the formulas below read off a state.
BothColumns(file) == file.readable /\ file.columns = {"timestamp", "hoehe"}
Loaded == request.op = "load" /\ uploaded # <<>> /\ BothColumns(uploaded[1])
Series == page.prepared[1].rows
\* the label a page shows for the record idx (NoLabel if it shows none)
LabelOf(p, idx) ==
    IF p.status = "ok" /\ "Label" \in Range(p.data[1].columns)
       /\ \E i \in DOMAIN p.data[1].rows : p.data[1].rows[i].idx = idx
    THEN (CHOOSE r \in Range(p.data[1].rows) : r.idx = idx).Label
    ELSE NoLabel

\* Every session state the full model reaches is one the load model starts from
\* (an invariant of Spec; conversely each start of SpecLoad is a state Spec reaches
\* by a load, slider moves and the removal of the file).
SessionStatesCover == session_state \in SessionStates

\* C1: a label_selection, advance or export request never clears or changes the label
\* of a record it does not cover: a record labeled L before the request, and outside the
\* range the request labels, still carries L after it.
C1_LabelsPersist ==
    [][(/\ request'.op \in {"label_selection", "advance", "export"}
        /\ page.status = "ok")
       => \A r \in Range(page.data[1].rows) :
            (/\ LabelOf(page, r.idx) # NoLabel
             /\ ~(request'.op = "label_selection"
                  /\ InRange(r, session_state'["x_start"], session_state'["x_end"])))
            => LabelOf(page', r.idx) = LabelOf(page, r.idx)]_vars

\* C2: label_selection with the drawn range [lo, hi] labels exactly the records with
\* lo <= timestamp <= hi; every other record keeps the label it had.
C2_LabelsExactlySelection ==
    [][(request'.op = "label_selection" /\ page'.status = "ok")
       => \A r \in Range(page'.data[1].rows) :
            IF r.timestamp.kind = "ts" /\ request'.lo <= r.timestamp.t /\ r.timestamp.t <= request'.hi
            THEN LabelOf(page', r.idx) = selected_label'
            ELSE LabelOf(page', r.idx) = LabelOf(page, r.idx)]_vars

\* C3: after an advance the window lies inside the data: start within
\* [min, max - Duration] and end = start + Duration when the series spans at least
\* Duration; start = min and end = max when it is shorter.  advance never fails.
C3_AdvanceInsideData ==
    request.op = "advance" =>
        /\ page.status = "ok"
        /\ LET lo == TimestampMin(Series).t
               hi == TimestampMax(Series).t
               start == session_state["x_start"].t
               end == session_state["x_end"].t
           IN IF hi - lo >= Duration
              THEN lo <= start /\ start <= hi - Duration /\ end = start + Duration
              ELSE start = lo /\ end = hi

\* C4: right after a successful load the window starts at the series' first timestamp
\* and ends Duration later, or at its last timestamp if that comes first.
C4_InitialWindow ==
    (Loaded /\ page.status = "ok") =>
        /\ session_state["x_start"] = TimestampMin(Series)
        /\ session_state["x_end"].t =
              Min2(TimestampMin(Series).t + Duration, TimestampMax(Series).t)

\* C6: a load of a table lacking the timestamp or the value column reports the
\* missing column, constructs no series, and leaves the session state as it was.
C6_MissingColumn ==
    [][(/\ request'.op = "load"
        /\ uploaded'[1].readable
        /\ uploaded'[1].columns # {"timestamp", "hoehe"})
       => /\ page'.status = "prepare_error"
          /\ page'.error = IF "timestamp" \in uploaded'[1].columns THEN ErrNoHoehe ELSE ErrNoTimestamp
          /\ page'.prepared = <<>>
          /\ page'.data = <<>>
          /\ page'.download = <<>>
          /\ session_state' = session_state]_vars

\* a table without the value column was loaded into a session that has a window
C6_Witness ==
    /\ request.op = "load"
    /\ uploaded[1].readable
    /\ uploaded[1].columns = {"timestamp"}
    /\ Len(uploaded[1].rows) > 0
    /\ page.status = "prepare_error"
    /\ session_state # <<>>

\* the rows of the uploaded table whose value is a number
NumericRows == {i - 1 : i \in {j \in DOMAIN uploaded[1].rows : uploaded[1].rows[j].hoehe.kind = "number"}}
\* the rows of the uploaded table whose timestamp is a date
DatedRows == {i - 1 : i \in {j \in DOMAIN uploaded[1].rows : uploaded[1].rows[j].timestamp.kind = "datetime"}}
\* some row of the uploaded table has a timestamp that is no date
SomeTextTimestamp == \E i \in DOMAIN uploaded[1].rows : uploaded[1].rows[i].timestamp.kind = "text"

C8_NoPlaceholders ==
    (Loaded /\ page.prepared # <<>>) =>
        \A r \in Range(Series) : r.timestamp # NaT /\ r.hoehe # NaN

C10_ExportHasLabelColumn ==
    (request.op = "export" /\ exported # <<>> /\ page.status = "ok") =>
        /\ exported[1].header = <<"timestamp", "hoehe", "Label">>
        /\ Len(exported[1].lines) = Len(Series)
        /\ \A i \in DOMAIN exported[1].lines :
              /\ exported[1].lines[i][1] = FormatTimestamp(Series[i].timestamp)
              /\ exported[1].lines[i][2] = FormatNumber(Series[i].hoehe)

====
